---- MODULE Spec2Model ----
(***************************************************************************)
(* Planning graph of my_planning_graph.py: the literal levels S0, S1, ...  *)
(* and action levels A0, A1, ... built by PlanningGraph.create_graph, the  *)
(* mutex tests run over each level, and the h_levelsum heuristic.          *)
(*                                                                         *)
(* Fluent symbols are the numbers 1..NumFluents.  A literal node is the    *)
(* pair (symbol, is_pos): PgNode_s.__eq__ and __hash__ compare exactly     *)
(* these two fields, so a set of literal nodes is a set of such records    *)
(* and the per-instance fields (parents, children, mutex) are kept in      *)
(* separate maps, one per level, keyed by the node stored in the level.    *)
(* An action node is named by the position of its action in all_actions    *)
(* (ground actions carry pairwise distinct name/args, which is what        *)
(* PgNode_a.__eq__ compares).                                              *)
(***************************************************************************)
EXTENDS Integers, Sequences, FiniteSets, TLC

\* Bounds of the explored problems.
NumFluents == 2
MaxActions == 2
MaxPre == 1
MaxEff == 2

Fluents == 1..NumFluents

\* No build over NumFluents symbols has more literal levels than this:
\* a level that differs from the previous one has gained a literal.
MaxLevel == 2 * NumFluents + 1

VARIABLES
    actions_list,   \* problem.actions_list: the ground domain actions
    state_map,      \* problem.state_map: the fluents of the state string
    fs,             \* self.fs: the decoded start state [pos, neg]
    serial,         \* self.serial
    all_actions,    \* self.all_actions
    s_levels,       \* self.s_levels: s_levels[i+1] is the set S_i
    a_levels,       \* self.a_levels: a_levels[i+1] is the list A_i
    s_parents,      \* node.parents of the literal nodes stored in each S level
    s_children,     \* node.children of those nodes
    s_mutex,        \* node.mutex of those nodes
    a_parents,      \* node.parents of the action nodes of each A level
    a_children,     \* node.children of those nodes
    a_mutex,        \* node.mutex of those nodes
    level,          \* local variable level of create_graph
    pc,             \* position of create_graph in its loop
    goal,           \* problem.goal at the last call of h_levelsum
    level_sum,      \* value returned by the last call of h_levelsum
    h_called,       \* whether h_levelsum has returned
    raised,         \* name of the exception a call has raised, "" if none
    cross_mutex,    \* <<literal node, action node>> put in each other's mutex set
    tested          \* <<argument order, value>> of a mutex test called directly

vars == <<actions_list, state_map, fs, serial, all_actions, s_levels, a_levels,
          s_parents, s_children, s_mutex, a_parents, a_children, a_mutex,
          level, pc, goal, level_sum, h_called, raised, cross_mutex, tested>>

problem_vars == <<actions_list, state_map, fs, serial, all_actions>>

graph_vars == <<s_levels, a_levels, s_parents, s_children, s_mutex,
                a_parents, a_children, a_mutex>>

call_vars == <<raised, cross_mutex, tested>>

----------------------------------------------------------------------------
\* Nodes and actions

PgNode_s(symbol, is_pos) == [symbol |-> symbol, is_pos |-> is_pos]

Literals == {PgNode_s(f, b) : f \in Fluents, b \in BOOLEAN}

\* aimacode.planning.Action: precond = (positive, negative), effect = (add, remove)
Action(precond, effect) ==
    [precond_pos |-> precond[1], precond_neg |-> precond[2],
     effect_add |-> effect[1], effect_rem |-> effect[2]]

Range(seq) == {seq[i] : i \in DOMAIN seq}

\* precond_s_nodes without its second loop (over precond_neg)
precond_s_nodes_pos_only(action) ==
    {PgNode_s(p, TRUE) : p \in action.precond_pos}

precond_s_nodes(action) ==
    {PgNode_s(p, TRUE) : p \in action.precond_pos}
        \cup {PgNode_s(p, FALSE) : p \in action.precond_neg}

\* effect_s_nodes without its second loop (over effect_rem)
effect_s_nodes_add_only(action) ==
    {PgNode_s(e, TRUE) : e \in action.effect_add}

effect_s_nodes(action) ==
    {PgNode_s(e, TRUE) : e \in action.effect_add}
        \cup {PgNode_s(e, FALSE) : e \in action.effect_rem}

\* PgNode_a.__init__: is_persistent
is_persistent(action) == precond_s_nodes(action) = effect_s_nodes(action)

\* lp_utils.decode_state: one character per position of the state map
decode_state(state, map) ==
    [pos |-> {map[i] : i \in {j \in DOMAIN map : state[j] = "T"}},
     neg |-> {map[i] : i \in {j \in DOMAIN map : state[j] # "T"}}]

\* noop_actions that appends act1 only: no negative no-op
noop_actions_pos_only(literal_list) ==
    [k \in 1..Len(literal_list) |->
        Action(<<{literal_list[k]}, {}>>, <<{literal_list[k]}, {}>>)]

\* noop_actions whose negative no-op lists the fluent as an add effect
noop_actions_neg_adds(literal_list) ==
    [k \in 1..(2 * Len(literal_list)) |->
        IF k % 2 = 1
        THEN Action(<<{literal_list[(k + 1) \div 2]}, {}>>,
                    <<{literal_list[(k + 1) \div 2]}, {}>>)
        ELSE Action(<<{}, {literal_list[k \div 2]}>>,
                    <<{literal_list[k \div 2]}, {}>>)]

\* Noop_pos(fluent), Noop_neg(fluent) for each fluent, in the order of the list
noop_actions(literal_list) ==
    [k \in 1..(2 * Len(literal_list)) |->
        IF k % 2 = 1
        THEN Action(<<{literal_list[(k + 1) \div 2]}, {}>>,
                    <<{literal_list[(k + 1) \div 2]}, {}>>)
        ELSE Action(<<{}, {literal_list[k \div 2]}>>,
                    <<{}, {literal_list[k \div 2]}>>)]

----------------------------------------------------------------------------
\* The problems explored

LitSets(n) == {s \in SUBSET Literals : Cardinality(s) <= n}

ActionPool ==
    {Action(<<{l.symbol : l \in {m \in pre : m.is_pos}},
              {l.symbol : l \in {m \in pre : ~m.is_pos}}>>,
            <<{l.symbol : l \in {m \in eff : m.is_pos}},
              {l.symbol : l \in {m \in eff : ~m.is_pos}}>>) :
        pre \in LitSets(MaxPre), eff \in LitSets(MaxEff)}

ActionLists == UNION {[1..n -> ActionPool] : n \in 0..MaxActions}

\* PlanningGraph.__init__ and the initialisation of S0 in create_graph
Init ==
    \E n \in 0..NumFluents :
      \E state \in [1..n -> {"T", "F"}], acts \in ActionLists, ser \in BOOLEAN :
        /\ actions_list = acts
        /\ state_map = [i \in 1..n |-> i]
        /\ fs = decode_state(state, state_map)
        /\ serial = ser
        /\ all_actions = acts \o noop_actions(state_map)
        /\ s_levels = << {PgNode_s(f, TRUE) : f \in fs.pos}
                           \cup {PgNode_s(f, FALSE) : f \in fs.neg} >>
        /\ a_levels = << >>
        /\ s_parents = << [l \in s_levels[1] |-> {}] >>
        /\ s_children = << [l \in s_levels[1] |-> {}] >>
        /\ s_mutex = << [l \in s_levels[1] |-> {}] >>
        /\ a_parents = << >>
        /\ a_children = << >>
        /\ a_mutex = << >>
        /\ level = 0
        /\ pc = "add_action_level"
        /\ goal = {}
        /\ level_sum = 0
        /\ h_called = FALSE
        /\ raised = ""
        /\ cross_mutex = {}
        /\ tested = << >>

----------------------------------------------------------------------------
\* Levels are numbered from 0 as in the code; sequences start at 1.

S(i) == s_levels[i + 1]
A(i) == a_levels[i + 1]

\* PgNode.is_mutex, on a node whose mutex set is node_mutex
is_mutex(node_mutex, other) == other \in node_mutex

\* mutexify without node2.mutex.add(node1)
mutexify_one_way(mx, node1, node2) ==
    [mx EXCEPT ![node1] = @ \cup {node2}]

\* mutexify on the mutex sets mx of one level
mutexify(mx, node1, node2) ==
    [mx EXCEPT ![node1] = @ \cup {node2}, ![node2] = @ \cup {node1}]

RECURSIVE MutexifyAll(_, _)
MutexifyAll(mx, pairs) ==
    IF pairs = {} THEN mx
    ELSE LET p == CHOOSE q \in pairs : TRUE
         IN MutexifyAll(mutexify(mx, p[1], p[2]), pairs \ {p})

\* for i, n1 in enumerate(nodelist[:-1]): for n2 in nodelist[i + 1:]
SiblingPairs(nodelist) ==
    UNION {{<<nodelist[i], nodelist[j]>> : j \in (i + 1)..Len(nodelist)} :
              i \in 1..(Len(nodelist) - 1)}

----------------------------------------------------------------------------
\* Action mutex tests; node_a1, node_a2 are action nodes of action level lvl

\* serialize_actions with "and" for "or" in the persistence test
serialize_actions_both_persistent(node_a1, node_a2) ==
    IF ~serial THEN FALSE
    ELSE IF is_persistent(all_actions[node_a1]) /\ is_persistent(all_actions[node_a2])
         THEN FALSE
         ELSE TRUE

serialize_actions(node_a1, node_a2) ==
    IF ~serial THEN FALSE
    ELSE IF is_persistent(all_actions[node_a1]) \/ is_persistent(all_actions[node_a2])
         THEN FALSE
         ELSE TRUE

\* inconsistent_effects_mutex without its second loop (adds of a2 in removes of a1)
inconsistent_effects_mutex_one_way(node_a1, node_a2) ==
    \E add_ \in all_actions[node_a1].effect_add : add_ \in all_actions[node_a2].effect_rem

inconsistent_effects_mutex(node_a1, node_a2) ==
    \/ \E add_ \in all_actions[node_a1].effect_add : add_ \in all_actions[node_a2].effect_rem
    \/ \E add_ \in all_actions[node_a2].effect_add : add_ \in all_actions[node_a1].effect_rem

\* interference_mutex without its second loop (removes of a2 in preconditions of a1)
interference_mutex_one_way(node_a1, node_a2) ==
    \E rem_ \in all_actions[node_a1].effect_rem : rem_ \in all_actions[node_a2].precond_pos

interference_mutex(node_a1, node_a2) ==
    \/ \E rem_ \in all_actions[node_a1].effect_rem : rem_ \in all_actions[node_a2].precond_pos
    \/ \E rem_ \in all_actions[node_a2].effect_rem : rem_ \in all_actions[node_a1].precond_pos

competing_needs_mutex(lvl, node_a1, node_a2) ==
    \E parent_a1 \in a_parents[lvl + 1][node_a1] :
        \E parent_a2 \in a_parents[lvl + 1][node_a2] :
            is_mutex(s_mutex[lvl + 1][parent_a1], parent_a2)

a_pair_mutex(lvl, n1, n2) ==
    \/ serialize_actions(n1, n2)
    \/ inconsistent_effects_mutex(n1, n2)
    \/ interference_mutex(n1, n2)
    \/ competing_needs_mutex(lvl, n1, n2)

\* the mutex sets of action level lvl after update_a_mutex
update_a_mutex(lvl) ==
    MutexifyAll(a_mutex[lvl + 1],
                {p \in SiblingPairs(A(lvl)) : a_pair_mutex(lvl, p[1], p[2])})

----------------------------------------------------------------------------
\* Literal mutex tests; node_s1, node_s2 are literal nodes of literal level lvl

\* negation_mutex with "!=" for "==" in the comparison of the symbols
negation_mutex_other_symbol(node_s1, node_s2) ==
    node_s1.is_pos # node_s2.is_pos /\ node_s1.symbol # node_s2.symbol

negation_mutex(node_s1, node_s2) ==
    node_s1.is_pos # node_s2.is_pos /\ node_s1.symbol = node_s2.symbol

inconsistent_support_mutex(lvl, node_s1, node_s2) ==
    LET parents_a1 == s_parents[lvl + 1][node_s1]
        parents_a2 == s_parents[lvl + 1][node_s2]
        counter_of_mutex ==
            Cardinality({pp \in parents_a1 \X parents_a2 :
                            is_mutex(a_mutex[lvl][pp[1]], pp[2])})
    IN counter_of_mutex = Cardinality(parents_a1)

s_pair_mutex(lvl, n1, n2) ==
    negation_mutex(n1, n2) \/ inconsistent_support_mutex(lvl, n1, n2)

\* The possible mutex sets of literal level lvl after update_s_mutex.  The
\* order of list(nodeset) is the set's iteration order: a pair of siblings is
\* visited once, in either orientation.
update_s_mutex(lvl) ==
    LET nodeset == S(lvl)
        both == {p \in nodeset \X nodeset :
                    /\ p[1] # p[2]
                    /\ s_pair_mutex(lvl, p[1], p[2])
                    /\ s_pair_mutex(lvl, p[2], p[1])}
        either == {p \in nodeset \X nodeset :
                    /\ p[1] # p[2]
                    /\ s_pair_mutex(lvl, p[1], p[2])
                    /\ ~s_pair_mutex(lvl, p[2], p[1])}
    IN {MutexifyAll(s_mutex[lvl + 1], both \cup chosen) : chosen \in SUBSET either}

----------------------------------------------------------------------------
\* create_graph, one action per call made in its loop

\* the admission test with the operands of issubset exchanged
admitted_if_superset(lvl, i) == S(lvl) \subseteq precond_s_nodes(all_actions[i])

\* the admission test of add_action_level
admitted(lvl, i) == precond_s_nodes(all_actions[i]) \subseteq S(lvl)

\* add_action_level that connects an admitted action to its prenodes only
add_action_level_to_prenodes ==
    /\ pc = "add_action_level"
    /\ level < MaxLevel
    /\ LET literals == S(level)
           Test(i) == admitted(level, i)
           action_level == SelectSeq([i \in 1..Len(all_actions) |-> i], Test)
           nodes == Range(action_level)
       IN /\ a_levels' = Append(a_levels, action_level)
          /\ a_parents' = Append(a_parents,
                                 [n \in nodes |-> precond_s_nodes(all_actions[n])])
          /\ a_children' = Append(a_children, [n \in nodes |-> {}])
          /\ a_mutex' = Append(a_mutex, [n \in nodes |-> {}])
          /\ s_children' = [s_children EXCEPT ![level + 1] =
                                [l \in literals |->
                                    {n \in nodes : l \in precond_s_nodes(all_actions[n])}]]
    /\ pc' = "update_a_mutex"
    /\ UNCHANGED <<problem_vars, s_levels, s_parents, s_mutex, level,
                   goal, level_sum, h_called, call_vars>>

add_action_level ==
    /\ pc = "add_action_level"
    /\ level < MaxLevel
    /\ LET literals == S(level)
           Test(i) == admitted(level, i)
           action_level == SelectSeq([i \in 1..Len(all_actions) |-> i], Test)
           nodes == Range(action_level)
       IN /\ a_levels' = Append(a_levels, action_level)
          /\ a_parents' = Append(a_parents, [n \in nodes |-> literals])
          /\ a_children' = Append(a_children, [n \in nodes |-> {}])
          /\ a_mutex' = Append(a_mutex, [n \in nodes |-> {}])
          /\ s_children' = [s_children EXCEPT ![level + 1] = [l \in literals |-> nodes]]
    /\ pc' = "update_a_mutex"
    /\ UNCHANGED <<problem_vars, s_levels, s_parents, s_mutex, level,
                   goal, level_sum, h_called, call_vars>>

step_update_a_mutex ==
    /\ pc = "update_a_mutex"
    /\ a_mutex' = [a_mutex EXCEPT ![level + 1] = update_a_mutex(level)]
    /\ level' = level + 1
    /\ pc' = "add_literal_level"
    /\ UNCHANGED <<problem_vars, s_levels, a_levels, s_parents, s_children, s_mutex,
                   a_parents, a_children, goal, level_sum, h_called, call_vars>>

\* set(literal_level) keeps, of the equal nodes appended to literal_level, the
\* first one: the effect node of the first action of the level that has it.
first_producer(prev, state) ==
    prev[CHOOSE j \in DOMAIN prev :
            /\ state \in effect_s_nodes(all_actions[prev[j]])
            /\ \A k \in 1..(j - 1) : state \notin effect_s_nodes(all_actions[prev[k]])]

add_literal_level ==
    /\ pc = "add_literal_level"
    /\ LET prev == A(level - 1)
           literal_level == UNION {effect_s_nodes(all_actions[n]) : n \in Range(prev)}
       IN /\ s_levels' = Append(s_levels, literal_level)
          /\ s_parents' = Append(s_parents,
                                 [l \in literal_level |-> {first_producer(prev, l)}])
          /\ s_children' = Append(s_children, [l \in literal_level |-> {}])
          /\ s_mutex' = Append(s_mutex, [l \in literal_level |-> {}])
          /\ a_children' = [a_children EXCEPT
                               ![level] = [n \in Range(prev) |->
                                              effect_s_nodes(all_actions[n])]]
    /\ pc' = "update_s_mutex"
    /\ UNCHANGED <<problem_vars, a_levels, a_parents, a_mutex, level,
                   goal, level_sum, h_called, call_vars>>

\* a comparison of the levels that also compares the mutex sets of the nodes
leveled_with_mutex(lvl) ==
    S(lvl) = S(lvl - 1) /\ s_mutex[lvl + 1] = s_mutex[lvl]

\* if self.s_levels[level] == self.s_levels[level - 1]: leveled = True
leveled(lvl) == S(lvl) = S(lvl - 1)

step_update_s_mutex ==
    /\ pc = "update_s_mutex"
    /\ \E mx \in update_s_mutex(level) :
            s_mutex' = [s_mutex EXCEPT ![level + 1] = mx]
    /\ pc' = IF leveled(level) THEN "done" ELSE "add_action_level"
    /\ UNCHANGED <<problem_vars, s_levels, a_levels, s_parents, s_children,
                   a_parents, a_children, a_mutex, level, goal, level_sum, h_called, call_vars>>

create_graph ==
    \/ add_action_level
    \/ step_update_a_mutex
    \/ add_literal_level
    \/ step_update_s_mutex

----------------------------------------------------------------------------
\* h_levelsum

\* The values the scan can return from layer_index on.  A level's nodes are
\* visited in the set's iteration order; the first node whose symbol is a goal
\* not yet in goal_checked is counted and the scan moves to the next level.
RECURSIVE levelsum_from(_, _, _, _)
levelsum_from(goals, layer_index, goal_checked, sum) ==
    IF layer_index >= Len(s_levels) THEN {sum}
    ELSE LET found == {node.symbol : node \in
                          {n \in S(layer_index) :
                               n.symbol \in goals /\ n.symbol \notin goal_checked}}
         IN IF found = {}
            THEN levelsum_from(goals, layer_index + 1, goal_checked, sum)
            ELSE UNION {levelsum_from(goals, layer_index + 1, goal_checked \cup {g},
                                      sum + layer_index) : g \in found}

\* h_levelsum with a scan that takes each level off s_levels (pop) to read it
h_levelsum_popping ==
    /\ pc = "done"
    /\ raised = ""
    /\ \E goals \in (IF h_called THEN {goal} ELSE SUBSET Fluents) :
        /\ goal' = goals
        /\ \E r \in levelsum_from(goals, 0, {}, 0) : level_sum' = r
    /\ h_called' = TRUE
    /\ s_levels' = << >>
    /\ UNCHANGED <<problem_vars, a_levels, s_parents, s_children, s_mutex,
                   a_parents, a_children, a_mutex, level, pc, call_vars>>

\* problem.goal is read by h_levelsum alone: the first call fixes the goals of
\* the problem and the later calls read the same list.
h_levelsum ==
    /\ pc = "done"
    /\ raised = ""
    /\ \E goals \in (IF h_called THEN {goal} ELSE SUBSET Fluents) :
        /\ goal' = goals
        /\ \E r \in levelsum_from(goals, 0, {}, 0) : level_sum' = r
    /\ h_called' = TRUE
    /\ UNCHANGED <<problem_vars, s_levels, a_levels, s_parents, s_children, s_mutex,
                   a_parents, a_children, a_mutex, level, pc, call_vars>>

----------------------------------------------------------------------------
\* Calls that raise.  Nothing in the module catches the exception: it ends the
\* run.  The calls are made on the graph as the constructor leaves it;
\* h_levelsum writes nothing that they read.

\* the test of create_graph with "==" for "!="
already_created_when_empty == Len(s_levels) = 0 \/ Len(a_levels) = 0

\* if (len(self.s_levels) != 0) or (len(self.a_levels) != 0)
already_created == Len(s_levels) # 0 \/ Len(a_levels) # 0

\* create_graph called on the graph the constructor has built
create_graph_again ==
    /\ pc = "done"
    /\ raised = ""
    /\ ~h_called
    /\ IF already_created
       THEN /\ raised' = "Exception"
            /\ UNCHANGED <<graph_vars, level, pc>>
       ELSE LET start == {PgNode_s(f, TRUE) : f \in fs.pos}
                             \cup {PgNode_s(f, FALSE) : f \in fs.neg}
                Grown(attr) ==
                    [Append(attr, << >>) EXCEPT
                        ![1] = [l \in (DOMAIN attr[1]) \cup start |->
                                   IF l \in DOMAIN attr[1] THEN attr[1][l] ELSE {}]]
            IN /\ s_levels' = [Append(s_levels, {}) EXCEPT ![1] = @ \cup start]
               /\ s_parents' = Grown(s_parents)
               /\ s_children' = Grown(s_children)
               /\ s_mutex' = Grown(s_mutex)
               /\ level' = 0
               /\ pc' = "add_action_level"
               /\ UNCHANGED <<a_levels, a_parents, a_children, a_mutex, raised>>
    /\ UNCHANGED <<problem_vars, goal, level_sum, h_called, cross_mutex, tested>>

\* the test of mutexify with node1 for node2
different_types_of_node1(type1, type2) == type1 # type1

\* if type(node1) != type(node2)
different_types(type1, type2) == type1 # type2

\* mutexify called with a literal node and an action node of level 0, in
\* either order
call_mutexify ==
    /\ pc = "done"
    /\ raised = ""
    /\ ~h_called
    /\ \E s_first \in BOOLEAN :
        \E node_s \in S(0), node_a \in Range(A(0)) :
            LET type1 == IF s_first THEN "PgNode_s" ELSE "PgNode_a"
                type2 == IF s_first THEN "PgNode_a" ELSE "PgNode_s"
            IN IF different_types(type1, type2)
               THEN /\ raised' = "TypeError"
                    /\ UNCHANGED cross_mutex
               ELSE /\ cross_mutex' = cross_mutex \cup {<<node_s, node_a>>}
                    /\ UNCHANGED raised
    /\ UNCHANGED <<problem_vars, graph_vars, level, pc, goal, level_sum, h_called,
                   tested>>

Next == create_graph \/ h_levelsum \/ create_graph_again \/ call_mutexify

Spec == Init /\ [][Next]_vars

\* The constructor runs create_graph to its end without interruption.
FairSpec == Spec /\ WF_vars(create_graph)

----------------------------------------------------------------------------
\* inconsistent_support_mutex called on two literal nodes that the caller has
\* built: any action nodes as their parents, any of those mutexified.

TestActions == [k \in 1..(2 * NumFluents) |-> k]

SupportInit ==
    \E parents_a1, parents_a2 \in SUBSET Range(TestActions),
       mutexified \in SUBSET SiblingPairs(TestActions) :
        /\ actions_list = << >>
        /\ state_map = << >>
        /\ fs = decode_state(<< >>, << >>)
        /\ serial = FALSE
        /\ all_actions = << >>
        /\ s_levels = << {}, {PgNode_s(1, TRUE), PgNode_s(2, TRUE)} >>
        /\ a_levels = << TestActions >>
        /\ s_parents = << << >>, [l \in s_levels[2] |->
                                  IF l.symbol = 1 THEN parents_a1 ELSE parents_a2] >>
        /\ s_children = << << >>, [l \in s_levels[2] |-> {}] >>
        /\ s_mutex = << << >>, [l \in s_levels[2] |-> {}] >>
        /\ a_parents = << [n \in Range(TestActions) |-> {}] >>
        /\ a_children = << [n \in Range(TestActions) |-> {}] >>
        /\ a_mutex = << MutexifyAll([n \in Range(TestActions) |-> {}], mutexified) >>
        /\ level = 1
        /\ pc = "test"
        /\ goal = {}
        /\ level_sum = 0
        /\ h_called = FALSE
        /\ raised = ""
        /\ cross_mutex = {}
        /\ tested = << >>

\* the call, with the two nodes in either order
call_inconsistent_support_mutex ==
    /\ pc = "test"
    /\ tested = << >>
    /\ \E first \in {1, 2} :
        tested' = <<first, inconsistent_support_mutex(1, PgNode_s(first, TRUE),
                                                      PgNode_s(3 - first, TRUE))>>
    /\ UNCHANGED <<problem_vars, graph_vars, level, pc, goal, level_sum, h_called,
                   raised, cross_mutex>>

SupportNext == call_inconsistent_support_mutex

SupportSpec == SupportInit /\ [][SupportNext]_vars

----------------------------------------------------------------------------
\* Vocabulary of the properties

NumSLevels == Len(s_levels)
NumALevels == Len(a_levels)

\* the symbol occurs, in either polarity, in literal level i
SymbolIn(i, g) == \E n \in S(i) : n.symbol = g

\* index of the earliest literal level in which symbol g occurs; 0 if in none
FirstLevelOf(g) ==
    IF \E i \in 0..(NumSLevels - 1) : SymbolIn(i, g)
    THEN CHOOSE i \in 0..(NumSLevels - 1) :
            SymbolIn(i, g) /\ \A j \in 0..(i - 1) : ~SymbolIn(j, g)
    ELSE 0

RECURSIVE SumOfFirstLevels(_)
SumOfFirstLevels(goals) ==
    IF goals = {} THEN 0
    ELSE LET g == CHOOSE x \in goals : TRUE
         IN FirstLevelOf(g) + SumOfFirstLevels(goals \ {g})

\* the action levels whose mutexes update_a_mutex has computed
NumMutexedALevels == IF pc = "update_a_mutex" THEN NumALevels - 1 ELSE NumALevels

\* the literal levels past the tests of update_s_mutex (S0 has none to run)
NumMutexedSLevels ==
    IF pc \in {"add_literal_level", "update_s_mutex"} /\ level + 1 = NumSLevels
    THEN NumSLevels - 1
    ELSE NumSLevels

DomainActions == 1..Len(actions_list)

\* every fluent an action of the problem mentions is in the state map
OnlyStateMapFluents ==
    \A k \in DomainActions :
        (actions_list[k].precond_pos \cup actions_list[k].precond_neg
            \cup actions_list[k].effect_add \cup actions_list[k].effect_rem)
                \subseteq Range(state_map)

----------------------------------------------------------------------------
\* C1: h_levelsum returns the sum, over the distinct goals, of the index of
\* the earliest literal level that contains a node with the goal's symbol
\* (0 for a goal in no level), for any number of goals.
C1_LevelSumIsSumOfFirstLevels ==
    h_called => level_sum = SumOfFirstLevels(goal)

\* C2: h_levelsum never returns a negative number, and when every goal is
\* present at literal level 0 the result is 0.
C2_GoalsAtLevelZeroCostNothing ==
    h_called =>
        /\ level_sum >= 0
        /\ (\A g \in goal : SymbolIn(0, g)) => level_sum = 0

\* C3: an action of all_actions has a node in action level i exactly when
\* each of its positive preconditions is in literal level i as a positive
\* literal and each of its negative preconditions as a negative literal.
C3_AdmittedIffPreconditionsHold ==
    \A i \in 0..(NumALevels - 1) :
        \A k \in 1..Len(all_actions) :
            (k \in Range(A(i))) <=>
                /\ \A p \in all_actions[k].precond_pos :
                        [symbol |-> p, is_pos |-> TRUE] \in S(i)
                /\ \A p \in all_actions[k].precond_neg :
                        [symbol |-> p, is_pos |-> FALSE] \in S(i)

\* a domain action with a precondition is refused at level 0 and admitted at level 1
C3_Witness ==
    /\ NumALevels >= 2
    /\ \E k \in DomainActions :
        /\ k \notin Range(A(0))
        /\ k \in Range(A(1))
        /\ \E j \in Range(A(1)) : j # k /\ a_mutex[2][j] # {}

\* C4: literal level i+1 is exactly the union of the effect literals of the
\* actions of action level i: add-effects positive, delete-effects negative.
C4_LiteralLevelIsUnionOfEffects ==
    \A i \in 0..(NumSLevels - 2) :
        S(i + 1) =
            {[symbol |-> e, is_pos |-> TRUE] :
                e \in UNION {all_actions[k].effect_add : k \in Range(A(i))}}
            \cup
            {[symbol |-> e, is_pos |-> FALSE] :
                e \in UNION {all_actions[k].effect_rem : k \in Range(A(i))}}

\* a level that gained both a positive and a negative literal
C4_Witness ==
    /\ NumSLevels >= 2
    /\ \E n1, n2 \in S(1) \ S(0) : n1.is_pos /\ ~n2.is_pos

\* C5: the parents of a literal node of level i+1 are all the action nodes of
\* action level i that have the literal among their effects.
C5_ParentsAreAllProducers ==
    \A i \in 0..(NumSLevels - 2) :
        \A l \in S(i + 1) :
            s_parents[i + 2][l] =
                {k \in Range(A(i)) :
                    \/ l.is_pos /\ l.symbol \in all_actions[k].effect_add
                    \/ ~l.is_pos /\ l.symbol \in all_actions[k].effect_rem}

\* the guard of the step create_graph takes next
CanStep ==
    \/ pc = "add_action_level" /\ level < MaxLevel
    \/ pc \in {"update_a_mutex", "add_literal_level", "update_s_mutex"}

\* C6: when the actions mention only fluents of the state map, create_graph
\* is never cut short: until the graph has leveled off its next step can be
\* taken, and no build has more than MaxLevel levels.
C6_BuildHalts ==
    OnlyStateMapFluents =>
        /\ level <= MaxLevel
        /\ pc = "done" \/ CanStep

\* a build over a full state map that needed three rounds to level off
C6_Witness ==
    /\ OnlyStateMapFluents
    /\ pc = "done"
    /\ NumSLevels >= 4
    /\ S(NumSLevels - 1) = S(NumSLevels - 2)

\* C7: create_graph stops at the first fixed point: on return the last two
\* literal levels are equal as sets of (symbol, polarity), no earlier pair of
\* consecutive levels is equal, and when no domain action admitted at level 0
\* has an effect outside S0 the graph has two literal levels and one action
\* level.
C7_StopsAtFirstFixedPoint ==
    /\ \A i \in 0..(NumSLevels - 3) : S(i) # S(i + 1)
    /\ pc = "done" =>
        /\ NumSLevels >= 2
        /\ S(NumSLevels - 1) = S(NumSLevels - 2)
        /\ NumALevels = NumSLevels - 1
        /\ (\A k \in DomainActions :
                k \in Range(A(0)) =>
                    \A l \in S(1) :
                        (\/ l.is_pos /\ l.symbol \in all_actions[k].effect_add
                         \/ ~l.is_pos /\ l.symbol \in all_actions[k].effect_rem)
                            => l \in S(0))
            => NumSLevels = 2 /\ NumALevels = 1

\* a graph that leveled off although the mutexes of its last two levels differ
C7_Witness ==
    /\ pc = "done"
    /\ S(NumSLevels - 1) = S(NumSLevels - 2)
    /\ s_mutex[NumSLevels] # s_mutex[NumSLevels - 1]

\* C8: the mutex relation of every level is symmetric, in every state of
\* the build: B is in A's mutex set exactly when A is in B's.
C8_MutexSymmetric ==
    /\ \A i \in 1..NumSLevels :
        \A n1, n2 \in s_levels[i] :
            (n2 \in s_mutex[i][n1]) <=> (n1 \in s_mutex[i][n2])
    /\ \A i \in 1..NumALevels :
        \A n1, n2 \in Range(a_levels[i]) :
            (n2 \in a_mutex[i][n1]) <=> (n1 \in a_mutex[i][n2])

\* mutexes at an action level and at a literal level
C8_Witness ==
    /\ \E i \in 1..NumALevels : \E n \in Range(a_levels[i]) : a_mutex[i][n] # {}
    /\ \E i \in 1..NumSLevels : \E n \in s_levels[i] : s_mutex[i][n] # {}

\* C9: in a completed graph two literal nodes of one level with the same
\* symbol and opposite polarity are in each other's mutex set.
C9_NegationsAreMutex ==
    pc = "done" =>
        \A i \in 1..NumSLevels :
            \A n1, n2 \in s_levels[i] :
                (n1.symbol = n2.symbol /\ n1.is_pos # n2.is_pos) =>
                    (n2 \in s_mutex[i][n1] /\ n1 \in s_mutex[i][n2])

\* a literal and its negation whose stored nodes have the same parent
C9_Witness ==
    /\ pc = "done"
    /\ \E i \in 2..NumSLevels :
        \E n1, n2 \in s_levels[i] :
            /\ n1.symbol = n2.symbol /\ n1.is_pos # n2.is_pos
            /\ s_parents[i][n1] = s_parents[i][n2]

\* the persistence flag, from the four collections of the action
SameInAndOut(action) ==
    action.precond_pos = action.effect_add /\ action.precond_neg = action.effect_rem

----------------------------------------------------------------------------
\* States of the planning problem: the set of the fluents that are true.

Holds(literal, state) == literal.is_pos <=> (literal.symbol \in state)

Applicable(action, state) ==
    action.precond_pos \subseteq state /\ action.precond_neg \cap state = {}

Result(state, action) == (state \ action.effect_rem) \cup action.effect_add

\* the states reached from the start state by at most n applicable domain actions
RECURSIVE ReachedWithin(_)
ReachedWithin(n) ==
    IF n = 0 THEN {fs.pos}
    ELSE LET before == ReachedWithin(n - 1)
         IN before \cup
              UNION {{Result(state, actions_list[k]) :
                         k \in {j \in DomainActions : Applicable(actions_list[j], state)}} :
                     state \in before}

\* C11: in a completed graph, two literals marked mutex at literal level i
\* hold together in no state reached from the start state by at most i
\* applicable domain actions.
C11_LiteralMutexesAreSound ==
    pc = "done" =>
        \A i \in 0..(NumSLevels - 1) :
            \A l1, l2 \in S(i) :
                (l2 \in s_mutex[i + 1][l1]) =>
                    \A state \in ReachedWithin(i) :
                        ~(Holds(l1, state) /\ Holds(l2, state))

\* the persistence no-op of the literal has a node in action level i
NoopAdmitted(i, literal) ==
    \E k \in Range(A(i)) :
        /\ k > Len(actions_list)
        /\ precond_s_nodes(all_actions[k]) = {literal}
        /\ effect_s_nodes(all_actions[k]) = {literal}

LevelsGrow ==
    \A i, j \in 0..(NumSLevels - 1) : i <= j => S(i) \subseteq S(j)

\* C12 as stated: every literal of literal level i is in every later level,
\* and the persistence no-op of every literal of level i is admitted at
\* action level i.
C12_NoopOfEveryLiteral ==
    /\ LevelsGrow
    /\ \A i \in 0..(NumALevels - 1) : \A l \in S(i) : NoopAdmitted(i, l)

\* C12: every literal of literal level i is in every later level, and the
\* persistence no-op of every literal of level i whose fluent is in the state
\* map is admitted at action level i.
C12_LiteralsPersist ==
    /\ LevelsGrow
    /\ \A i \in 0..(NumALevels - 1) :
        \A l \in S(i) : l.symbol \in Range(state_map) => NoopAdmitted(i, l)

\* a literal of the start state that only its no-op carries to level 1, in a
\* graph where a literal outside the state map is carried on without a no-op
C12_Witness ==
    /\ pc = "done"
    /\ NumSLevels >= 3
    /\ \E l \in S(0) :
        /\ \A k \in Range(A(0)) :
              l \in effect_s_nodes(all_actions[k]) => k > Len(actions_list)
        /\ l \in S(2)
    /\ \E l \in S(1) :
        /\ l.symbol \notin Range(state_map)
        /\ ~NoopAdmitted(1, l)
        /\ l \in S(2)

\* index of the earliest literal level that holds the positive literal of g
FirstPosLevelOf(g) ==
    CHOOSE i \in 0..(NumSLevels - 1) :
        /\ PgNode_s(g, TRUE) \in S(i)
        /\ \A j \in 0..(i - 1) : PgNode_s(g, TRUE) \notin S(j)

\* C13: when the only goal is a fluent R that is false in the start state and
\* that a domain action adds, h_levelsum is the index of the first literal
\* level that holds R(+), the level after the action level that first admits
\* an action adding R.
C13_SingleGoalLevelCost ==
    (/\ h_called
     /\ Cardinality(goal) = 1
     /\ \A g \in goal :
          /\ g \notin fs.pos
          /\ \E k \in DomainActions : g \in actions_list[k].effect_add
          /\ \E i \in 0..(NumSLevels - 1) : PgNode_s(g, TRUE) \in S(i))
    => \A g \in goal :
          /\ level_sum = FirstPosLevelOf(g)
          /\ level_sum >= 1
          /\ \E k \in Range(A(level_sum - 1)) : g \in all_actions[k].effect_add
          /\ \A j \in 0..(level_sum - 2) :
                \A k \in Range(A(j)) : g \notin all_actions[k].effect_add

\* C14: create_graph called on a graph that has a level raises an exception
\* at once and leaves s_levels, a_levels and the parent, child and mutex sets
\* of every node as they were.
C14_RebuildRaises ==
    [][create_graph_again => (raised' = "Exception" /\ UNCHANGED graph_vars)]_vars

\* the second call of create_graph has raised on a graph with three literal levels
C14_Witness ==
    raised = "Exception" /\ Len(s_levels) >= 3 /\ Len(a_levels) >= 2

\* C15: mutexify called with a literal node and an action node, in either
\* order, raises a type error and adds nothing to a mutex set; every member
\* of a node's mutex set in the graph is a node of the same type as the node.
C15_MutexifyTypeChecked ==
    /\ [](/\ cross_mutex = {}
          /\ \A i \in 1..Len(s_levels) :
                \A l \in s_levels[i] : s_mutex[i][l] \subseteq s_levels[i]
          /\ \A i \in 1..Len(a_levels) :
                \A n \in Range(a_levels[i]) : a_mutex[i][n] \subseteq Range(a_levels[i]))
    /\ [][call_mutexify =>
            (raised' = "TypeError" /\ UNCHANGED <<s_mutex, a_mutex, cross_mutex>>)]_vars

\* mutexify has raised on a graph with mutex action nodes at level 0 and
\* mutex literal nodes at level 1
C15_Witness ==
    /\ raised = "TypeError"
    /\ \E n \in Range(A(0)) : a_mutex[1][n] # {}
    /\ \E l \in S(1) : s_mutex[2][l] # {}

\* C16: h_levelsum changes nothing in the graph, and every call on the same
\* completed graph returns the same value.
C16_LevelSumReadsOnly ==
    /\ [](h_called => levelsum_from(goal, 0, {}, 0) = {level_sum})
    /\ [][h_levelsum =>
            (UNCHANGED <<graph_vars, problem_vars>>
                /\ (h_called => level_sum' = level_sum))]_vars

\* h_levelsum has returned a positive sum for two goals on a graph with
\* three literal levels
C16_Witness ==
    /\ h_called
    /\ Cardinality(goal) = 2
    /\ level_sum >= 1
    /\ Len(s_levels) >= 3

\* C17: for two literal nodes with non-empty parent sets of any sizes,
\* inconsistent_support_mutex is true exactly when every parent of the first
\* is mutex with every parent of the second.
C17_SupportIsAllPairs ==
    tested # << >> =>
        LET parents_a1 == s_parents[2][PgNode_s(tested[1], TRUE)]
            parents_a2 == s_parents[2][PgNode_s(3 - tested[1], TRUE)]
        IN (parents_a1 # {} /\ parents_a2 # {}) =>
              (tested[2] <=>
                  \A a1 \in parents_a1 : \A a2 \in parents_a2 : a2 \in a_mutex[1][a1])

\* C18: two sibling actions of action level i are flagged by competing needs
\* exactly when a precondition literal of one is mutex at literal level i with
\* a precondition literal of the other; the other literals of the level have
\* no part in the result.
C18_CompetingNeedsOfPreconditions ==
    \A i \in 0..(NumALevels - 1) :
        \A n1, n2 \in Range(A(i)) :
            n1 # n2 =>
                (competing_needs_mutex(i, n1, n2) <=>
                    \E p1 \in precond_s_nodes(all_actions[n1]) :
                        \E p2 \in precond_s_nodes(all_actions[n2]) :
                            p2 \in s_mutex[i + 1][p1])

AllActions == 1..Len(all_actions)

AddsWhatOtherDeletes(n1, n2) ==
    all_actions[n1].effect_add \cap all_actions[n2].effect_rem # {}

DeletesNeedOfOther(n1, n2) ==
    all_actions[n1].effect_rem \cap all_actions[n2].precond_pos # {}

NoPreconditionOn(n, x) ==
    x \notin all_actions[n].precond_pos \cup all_actions[n].precond_neg

\* the pair is marked at level 0 and no test but inconsistent effects is true of it
OnlyInconsistentEffects(n1, n2) ==
    /\ n2 \in a_mutex[1][n1] /\ n1 \in a_mutex[1][n2]
    /\ ~serialize_actions(n1, n2) /\ ~serialize_actions(n2, n1)
    /\ ~interference_mutex(n1, n2) /\ ~interference_mutex(n2, n1)
    /\ ~competing_needs_mutex(0, n1, n2) /\ ~competing_needs_mutex(0, n2, n1)

InconsistentEffectsIsIntersection ==
    \A n1, n2 \in AllActions :
        inconsistent_effects_mutex(n1, n2) <=>
            (AddsWhatOtherDeletes(n1, n2) \/ AddsWhatOtherDeletes(n2, n1))

\* C19 as stated: inconsistent_effects_mutex is true exactly when the adds of
\* one action meet the deletes of the other; in a parallel graph two actions
\* admitted at level 0, one adding X and the other deleting X, neither with a
\* precondition on X, are marked mutex while the serial, interference and
\* competing-needs tests are false of the pair.
C19_AnyAdderAndDeleter ==
    /\ InconsistentEffectsIsIntersection
    /\ (~serial /\ NumMutexedALevels >= 1) =>
        \A n1, n2 \in Range(A(0)) : \A x \in Fluents :
            (/\ n1 # n2
             /\ x \in all_actions[n1].effect_add
             /\ x \in all_actions[n2].effect_rem
             /\ NoPreconditionOn(n1, x) /\ NoPreconditionOn(n2, x))
            => OnlyInconsistentEffects(n1, n2)

\* C19: the same, for two actions neither of which deletes a positive
\* precondition of the other.
C19_InconsistentEffects ==
    /\ InconsistentEffectsIsIntersection
    /\ (~serial /\ NumMutexedALevels >= 1) =>
        \A n1, n2 \in Range(A(0)) : \A x \in Fluents :
            (/\ n1 # n2
             /\ x \in all_actions[n1].effect_add
             /\ x \in all_actions[n2].effect_rem
             /\ NoPreconditionOn(n1, x) /\ NoPreconditionOn(n2, x)
             /\ ~DeletesNeedOfOther(n1, n2) /\ ~DeletesNeedOfOther(n2, n1))
            => OnlyInconsistentEffects(n1, n2)

\* parallel graph: the second domain action adds what the first deletes, each
\* has a precondition on the other fluent, and the pair is marked at level 0
C19_Witness ==
    /\ ~serial
    /\ NumMutexedALevels >= 1
    /\ Len(actions_list) = 2
    /\ {1, 2} \subseteq Range(A(0))
    /\ AddsWhatOtherDeletes(2, 1) /\ ~AddsWhatOtherDeletes(1, 2)
    /\ precond_s_nodes(all_actions[1]) # {} /\ precond_s_nodes(all_actions[2]) # {}
    /\ ~DeletesNeedOfOther(1, 2) /\ ~DeletesNeedOfOther(2, 1)
    /\ 2 \in a_mutex[1][1]

NegatesNeedOfOther(n1, n2) ==
    \/ all_actions[n1].effect_rem \cap all_actions[n2].precond_pos # {}
    \/ all_actions[n1].effect_add \cap all_actions[n2].precond_neg # {}

\* C21: interference_mutex is true whenever an effect of one action is the
\* negation of a precondition of the other, an action that adds a fluent the
\* other requires to be false included.
C21_InterferenceOfNegations ==
    \A n1, n2 \in AllActions :
        (NegatesNeedOfOther(n1, n2) \/ NegatesNeedOfOther(n2, n1))
            => interference_mutex(n1, n2)

C23_NoNewLiteralMutex ==
    \A i \in 1..(NumMutexedSLevels - 2) :
        \A l1, l2 \in S(i) :
            (l2 \notin s_mutex[i + 1][l1]) => (l2 \notin s_mutex[i + 2][l1])

\* C24: when every fluent the actions mention is in the state map, every
\* literal, positive or negative, that holds in a state reached from the
\* start state by at most i applicable domain actions is in literal level i,
\* for every level i of the graph.
C24_LevelsCoverReachableStates ==
    OnlyStateMapFluents =>
        \A i \in 0..(NumSLevels - 1) :
            \A state \in ReachedWithin(i) :
                \A f \in Range(state_map) : PgNode_s(f, f \in state) \in S(i)

\* a state first reached by two actions holds a literal first present at level 2
C24_Witness ==
    /\ OnlyStateMapFluents
    /\ pc = "done"
    /\ NumSLevels >= 4
    /\ \E state \in ReachedWithin(2) \ ReachedWithin(1) :
        \E f \in Range(state_map) :
            /\ PgNode_s(f, f \in state) \in S(2)
            /\ PgNode_s(f, f \in state) \notin S(1)

====
